---------------------------- MODULE Spec2Model ----------------------------
(***************************************************************************)
(* A model of the blurhash batch tool (src/main.rs): discovery of the      *)
(* candidate images, the semaphore-bounded tasks that run process_image,   *)
(* the join and the error report of main, and the artifact files the tasks *)
(* check and write.  Two runs of the program can share the file system.    *)
(***************************************************************************)
EXTENDS Integers, Sequences, FiniteSets, TLC

(***************************************************************************)
(* Bounds of the model.                                                    *)
(***************************************************************************)
\* image files 1..NumFiles exist on disk
NumFiles == 3
\* the image files 1..DirSize lie in the one directory; the others beside it
DirSize == 2
\* a command line names 1..MaxInputs inputs
MaxInputs == 2
\* num_cpus::get() returns 1..MaxPool
MaxPool == 2

(***************************************************************************)
(* Paths.  An input is the directory, an image file or a file that is no   *)
(* image.  The artifact path of image file f is f with ".bh" appended to   *)
(* its extension (main.rs 89-91, 128-130): one artifact path per image, so *)
(* the artifact of f is fs[f].                                             *)
(***************************************************************************)
\* the directory given as an input
Dir == 0
\* a file whose extension is none of the image extensions
NonImage == NumFiles + 1
Files == 1..NumFiles
Inputs == {Dir, NonImage} \cup Files
Runs == {1, 2}

\* the entries read_dir yields for the directory
DirEntries == [k \in 1..(DirSize + 1) |-> IF k <= DirSize THEN k ELSE NonImage]

\* the longest candidate list: every input is the directory
MaxTasks == MaxInputs * (IF DirSize > 0 THEN DirSize ELSE 1)
TaskIds == 1..MaxTasks

\* the command line's grid: the defaults, and values outside 1..=9
Grids == {<<4, 3>>, <<10, 3>>, <<0, 3>>}

\* image::open: an error, or an image of some width and height
NoImage == [ok |-> FALSE, w |-> 0, h |-> 0]
DecodeResults == {NoImage} \cup {[ok |-> TRUE, w |-> w, h |-> 2] : w \in {0, 2}}

VARIABLES
    fs,           \* fs[f]: the artifact file of image f: "none", or its content
    fs0,          \* fs as it was when the runs started
    nwrites,      \* nwrites[f]: how many times the artifact of f was written
    ncpus,        \* num_cpus::get()
    inputs,       \* inputs[r]: args.inputs of run r
    grid,         \* grid[r]: <<args.components_x, args.components_y>>
    mainPc,       \* mainPc[r]: where main of run r is
    cursor,       \* cursor[r]: the index of main's current loop
    image_paths,  \* image_paths[r]: the candidate list
    discoverLog,  \* discoverLog[r]: the files search_directory reported skipped
    permits,      \* permits[r]: the semaphore's free permits
    pc,           \* pc[r][i]: where task i is
    seen,         \* seen[r][i]: the artifact's content when task i checked it
    img,          \* img[r][i]: the decoded image a task holds
    did,          \* did[r][i]: which of decode, encode, write task i has run,
                  \* and which of them failed
    ret,          \* ret[r][i]: the task's result
    printed,      \* printed[r][i]: the lines process_image printed
    stderr,       \* stderr[r]: the tasks main reported as failed, in order
    exit,         \* exit[r]: what main returned
    codec         \* a call of blurhash::encode on its own: arguments and result

vars == <<fs, fs0, nwrites, ncpus, inputs, grid, mainPc, cursor, image_paths,
          discoverLog, permits, pc, seen, img, did, ret, printed, stderr, exit,
          codec>>

(***************************************************************************)
(* Helpers of main.rs.                                                     *)
(***************************************************************************)
is_image_file(p) == p \in Files

\* Path::exists on an artifact path
Exists(content) == content # "none"

\* search_directory: the directory's images that have no artifact yet
Undiscovered(p) == is_image_file(p) /\ ~Exists(fs[p])
search_directory(paths) == paths \o SelectSeq(DirEntries, Undiscovered)

AlreadyDone(p) == is_image_file(p) /\ Exists(fs[p])
search_directory_skipped(log) == log \o SelectSeq(DirEntries, AlreadyDone)

\* get_image_paths, one input
get_image_paths_step(paths, input) ==
    IF input = Dir THEN search_directory(paths)
    ELSE IF is_image_file(input) THEN Append(paths, input)
    ELSE paths

\* Semaphore::new(num_cpus::get())
SemaphoreNew == ncpus

\* sem.acquire() completes only when a permit is free
CanAcquireAlways(p) == TRUE
CanAcquire(p) == p > 0

\* dropping _permit when the task's block ends
PermitDropLeak(p) == p
PermitDropTwice(p) == p + 2
PermitDrop(p) == p + 1

\* the tasks main spawns: one per candidate path
TasksOfShort(paths) == 1..(Len(paths) - 1)
TasksOf(paths) == 1..Len(paths)

\* process_image returns early when the artifact exists
ShouldSkipNever(content) == FALSE
ShouldSkipComplete(content) == content \in {"old", "hash"}
ShouldSkip(content) == Exists(content)

\* blurhash::encode: the checks of its arguments; "hash" stands for a hash
encode_outcome(cx, cy, w, h) ==
    IF ~(cx \in 1..9 /\ cy \in 1..9) THEN "InvalidGrid"
    ELSE IF w = 0 \/ h = 0 THEN "EmptyImage"
    ELSE "hash"

\* encode's result is taken for a hash whatever it is
EncodeFailedNever(hash) == FALSE

\* encode's result is an Err
EncodeFailed(hash) == hash \in {"InvalidGrid", "EmptyImage"}

\* a task's result is an Err
IsErr(res) == res \notin {"none", "Ok"}

\* what tokio::fs::write leaves at the artifact path
WriteOkLost(old) == old
WriteOk(old) == "hash"
WriteFailed(old) == {old, "partial"}

\* join_all(tasks).await completes when every task has
JoinReadyFailFast(r) ==
    \/ \A i \in TasksOf(image_paths[r]) : pc[r][i] = "done"
    \/ \E i \in TasksOf(image_paths[r]) : IsErr(ret[r][i])
\* the results are inspected from the first finished task on
JoinReadyStreaming(r) ==
    \/ TasksOf(image_paths[r]) = {}
    \/ \E i \in TasksOf(image_paths[r]) : pc[r][i] = "done"
JoinReady(r) == \A i \in TasksOf(image_paths[r]) : pc[r][i] = "done"

\* main's value after the loop
ReturnValueStrict(r) ==
    IF \E i \in TaskIds : IsErr(ret[r][i]) THEN "Err" ELSE "Ok"
ReturnValue(r) == "Ok"

\* main's loop prints the failed results
ReportsOnlyDecode(res) == res = "DecodeError"
Reports(res) == IsErr(res)

(***************************************************************************)
(* The initial states: the files on disk, some with an artifact already,   *)
(* and the command line of each run.  Run 2 is off unless started.         *)
(***************************************************************************)
InputLists == UNION {[1..n -> Inputs] : n \in 1..MaxInputs}

InitCommon ==
    /\ fs0 = fs
    /\ nwrites = [f \in Files |-> 0]
    /\ cursor = [r \in Runs |-> 1]
    /\ image_paths = [r \in Runs |-> <<>>]
    /\ discoverLog = [r \in Runs |-> <<>>]
    /\ permits = [r \in Runs |-> 0]
    /\ pc = [r \in Runs |-> [i \in TaskIds |-> "absent"]]
    /\ seen = [r \in Runs |-> [i \in TaskIds |-> "unchecked"]]
    /\ img = [r \in Runs |-> [i \in TaskIds |-> NoImage]]
    /\ did = [r \in Runs |-> [i \in TaskIds |-> {}]]
    /\ ret = [r \in Runs |-> [i \in TaskIds |-> "none"]]
    /\ printed = [r \in Runs |-> [i \in TaskIds |-> <<>>]]
    /\ stderr = [r \in Runs |-> <<>>]
    /\ exit = [r \in Runs |-> "none"]

\* no call of the codec on its own
CodecIdle == [pc |-> "idle"]

\* the files on disk and the machine
InitDisk ==
    /\ fs \in [Files -> {"none", "old"}]
    /\ ncpus \in 1..MaxPool

Init ==
    /\ InitDisk
    /\ InitCommon
    /\ codec = CodecIdle
    /\ \E l \in InputLists : inputs = [r \in Runs |-> IF r = 1 THEN l ELSE <<>>]
    /\ \E g \in Grids : grid = [r \in Runs |-> g]
    /\ mainPc = [r \in Runs |-> IF r = 1 THEN "discover" ELSE "off"]

(***************************************************************************)
(* main, lines 31-60.                                                      *)
(***************************************************************************)
\* get_image_paths handles the next input (lines 65-74)
Discover(r) ==
    /\ mainPc[r] = "discover"
    /\ cursor[r] <= Len(inputs[r])
    /\ LET input == inputs[r][cursor[r]] IN
        /\ image_paths' = [image_paths EXCEPT ![r] = get_image_paths_step(@, input)]
        /\ discoverLog' = [discoverLog EXCEPT
               ![r] = IF input = Dir THEN search_directory_skipped(@) ELSE @]
    /\ cursor' = [cursor EXCEPT ![r] = @ + 1]
    /\ UNCHANGED <<codec, fs, fs0, nwrites, ncpus, inputs, grid, mainPc, permits, pc, seen,
                   img, did, ret, printed, stderr, exit>>

\* read_dir or an entry of it fails, and the error is returned only after the
\* paths found so far have been handed to tasks
DiscoverFailDeferred(r) ==
    /\ mainPc[r] = "discover"
    /\ cursor[r] <= Len(inputs[r])
    /\ inputs[r][cursor[r]] = Dir
    /\ mainPc' = [mainPc EXCEPT ![r] = "failed"]
    /\ exit' = [exit EXCEPT ![r] = "Err"]
    /\ permits' = [permits EXCEPT ![r] = SemaphoreNew]
    /\ pc' = [pc EXCEPT ![r] = [i \in TaskIds |->
                 IF i \in TasksOf(image_paths[r]) THEN "spawned" ELSE "absent"]]
    /\ UNCHANGED <<codec, fs, fs0, nwrites, ncpus, inputs, grid, cursor, image_paths,
                   discoverLog, seen, img, did, ret, printed, stderr>>

\* read_dir or an entry of it fails: get_image_paths returns the error and
\* main returns it (lines 31, 121-122)
DiscoverFail(r) ==
    /\ mainPc[r] = "discover"
    /\ cursor[r] <= Len(inputs[r])
    /\ inputs[r][cursor[r]] = Dir
    /\ mainPc' = [mainPc EXCEPT ![r] = "failed"]
    /\ exit' = [exit EXCEPT ![r] = "Err"]
    /\ UNCHANGED <<codec, fs, fs0, nwrites, ncpus, inputs, grid, cursor, image_paths,
                   discoverLog, permits, pc, seen, img, did, ret, printed, stderr>>

\* the semaphore is created and one task is spawned per path (lines 34-47)
SpawnAll(r) ==
    /\ mainPc[r] = "discover"
    /\ cursor[r] > Len(inputs[r])
    /\ permits' = [permits EXCEPT ![r] = SemaphoreNew]
    /\ pc' = [pc EXCEPT ![r] = [i \in TaskIds |->
                 IF i \in TasksOf(image_paths[r]) THEN "spawned" ELSE "absent"]]
    /\ mainPc' = [mainPc EXCEPT ![r] = "join"]
    /\ UNCHANGED <<codec, fs, fs0, nwrites, ncpus, inputs, grid, cursor, image_paths,
                   discoverLog, seen, img, did, ret, printed, stderr, exit>>

\* join_all returns (line 50)
JoinAll(r) ==
    /\ mainPc[r] = "join"
    /\ JoinReady(r)
    /\ mainPc' = [mainPc EXCEPT ![r] = "report"]
    /\ cursor' = [cursor EXCEPT ![r] = 1]
    /\ UNCHANGED <<codec, fs, fs0, nwrites, ncpus, inputs, grid, image_paths, discoverLog,
                   permits, pc, seen, img, did, ret, printed, stderr, exit>>

\* one round of the loop over the results (lines 53-57)
ReportNext(r) ==
    /\ mainPc[r] = "report"
    /\ cursor[r] <= Len(image_paths[r])
    /\ stderr' = [stderr EXCEPT
          ![r] = IF Reports(ret[r][cursor[r]]) THEN Append(@, cursor[r]) ELSE @]
    /\ cursor' = [cursor EXCEPT ![r] = @ + 1]
    /\ UNCHANGED <<codec, fs, fs0, nwrites, ncpus, inputs, grid, mainPc, image_paths,
                   discoverLog, permits, pc, seen, img, did, ret, printed, exit>>

\* Ok(()) (line 59)
Return(r) ==
    /\ mainPc[r] = "report"
    /\ cursor[r] > Len(image_paths[r])
    /\ mainPc' = [mainPc EXCEPT ![r] = "done"]
    /\ exit' = [exit EXCEPT ![r] = ReturnValue(r)]
    /\ UNCHANGED <<codec, fs, fs0, nwrites, ncpus, inputs, grid, cursor, image_paths,
                   discoverLog, permits, pc, seen, img, did, ret, printed, stderr>>

(***************************************************************************)
(* A spawned task, lines 42-45, and process_image, lines 87-118.           *)
(***************************************************************************)
\* the task's block ends with result res: the permit is dropped
Finish(r, i, res) ==
    /\ pc' = [pc EXCEPT ![r][i] = "done"]
    /\ ret' = [ret EXCEPT ![r][i] = res]
    /\ permits' = [permits EXCEPT ![r] = PermitDrop(@)]

\* sem.acquire().await (line 43)
Acquire(r, i) ==
    /\ pc[r][i] = "spawned"
    /\ CanAcquire(permits[r])
    /\ permits' = [permits EXCEPT ![r] = @ - 1]
    /\ pc' = [pc EXCEPT ![r][i] = "check"]
    /\ UNCHANGED <<codec, fs, fs0, nwrites, ncpus, inputs, grid, mainPc, cursor, image_paths,
                   discoverLog, seen, img, did, ret, printed, stderr, exit>>

\* the check of the artifact path (lines 89-97)
CheckExists(r, i) ==
    /\ pc[r][i] = "check"
    /\ LET content == fs[image_paths[r][i]] IN
        /\ seen' = [seen EXCEPT ![r][i] = content]
        /\ IF ShouldSkip(content)
           THEN /\ printed' = [printed EXCEPT ![r][i] = Append(@, "Skipping")]
                /\ Finish(r, i, "Ok")
           ELSE /\ pc' = [pc EXCEPT ![r][i] = "decode"]
                /\ UNCHANGED <<printed, ret, permits>>
    /\ UNCHANGED <<codec, fs, fs0, nwrites, ncpus, inputs, grid, mainPc, cursor, image_paths,
                   discoverLog, img, did, stderr, exit>>

\* spawn_blocking(image::open) (line 99)
Decode(r, i) ==
    /\ pc[r][i] = "decode"
    /\ \E res \in DecodeResults :
        IF res.ok
        THEN /\ img' = [img EXCEPT ![r][i] = res]
             /\ did' = [did EXCEPT ![r][i] = @ \cup {"decode"}]
             /\ pc' = [pc EXCEPT ![r][i] = "encode"]
             /\ UNCHANGED <<ret, permits>>
        ELSE /\ did' = [did EXCEPT ![r][i] = @ \cup {"decode", "decode_err"}]
             /\ Finish(r, i, "DecodeError")
             /\ UNCHANGED img
    /\ UNCHANGED <<codec, fs, fs0, nwrites, ncpus, inputs, grid, mainPc, cursor, image_paths,
                   discoverLog, seen, printed, stderr, exit>>

\* the pixels are taken and blurhash::encode runs (lines 100-110)
Encode(r, i) ==
    /\ pc[r][i] = "encode"
    /\ img' = [img EXCEPT ![r][i] = NoImage]
    /\ LET hash == encode_outcome(grid[r][1], grid[r][2], img[r][i].w, img[r][i].h) IN
        IF EncodeFailed(hash)
        THEN /\ did' = [did EXCEPT ![r][i] = @ \cup {"encode", "encode_err"}]
             /\ Finish(r, i, hash)
        ELSE /\ did' = [did EXCEPT ![r][i] = @ \cup {"encode"}]
             /\ pc' = [pc EXCEPT ![r][i] = "write"]
             /\ UNCHANGED <<ret, permits>>
    /\ UNCHANGED <<codec, fs, fs0, nwrites, ncpus, inputs, grid, mainPc, cursor, image_paths,
                   discoverLog, seen, printed, stderr, exit>>

\* tokio::fs::write succeeds (lines 113-117)
Write(r, i) ==
    /\ pc[r][i] = "write"
    /\ did' = [did EXCEPT ![r][i] = @ \cup {"write"}]
    /\ LET f == image_paths[r][i] IN
        /\ fs' = [fs EXCEPT ![f] = WriteOk(@)]
        /\ nwrites' = [nwrites EXCEPT ![f] = @ + 1]
    /\ printed' = [printed EXCEPT ![r][i] = Append(@, "Saved")]
    /\ Finish(r, i, "Ok")
    /\ UNCHANGED <<codec, fs0, ncpus, inputs, grid, mainPc, cursor, image_paths,
                   discoverLog, seen, img, stderr, exit>>

\* tokio::fs::write fails (line 113): the file was not created, or was
\* created and not filled
WriteFail(r, i) ==
    /\ pc[r][i] = "write"
    /\ did' = [did EXCEPT ![r][i] = @ \cup {"write", "write_err"}]
    /\ LET f == image_paths[r][i] IN
        \E left \in WriteFailed(fs[f]) : fs' = [fs EXCEPT ![f] = left]
    /\ Finish(r, i, "IoError")
    /\ UNCHANGED <<codec, fs0, nwrites, ncpus, inputs, grid, mainPc, cursor, image_paths,
                   discoverLog, seen, img, printed, stderr, exit>>

MainStep(r) ==
    \/ Discover(r)
    \/ DiscoverFail(r)
    \/ SpawnAll(r)
    \/ JoinAll(r)
    \/ ReportNext(r)
    \/ Return(r)

TaskStep(r, i) ==
    \/ Acquire(r, i)
    \/ CheckExists(r, i)
    \/ Decode(r, i)
    \/ Encode(r, i)
    \/ Write(r, i)
    \/ WriteFail(r, i)

\* one run of the program
Next == MainStep(1) \/ \E i \in TaskIds : TaskStep(1, i)

Spec == Init /\ [][Next]_vars

\* the runtime keeps polling while main or a task can advance
FairSpec == Spec /\ WF_vars(Next)

(***************************************************************************)
(* Two runs of the program started on the same files.                      *)
(***************************************************************************)
\* command lines that name no image twice
RaceInputLists == {<<Dir>>} \cup {<<f>> : f \in Files}

InitRace ==
    /\ InitDisk
    /\ InitCommon
    /\ codec = CodecIdle
    /\ inputs \in [Runs -> RaceInputLists]
    /\ grid = [r \in Runs |-> <<4, 3>>]
    /\ mainPc = [r \in Runs |-> "discover"]

NextRace == \E r \in Runs : MainStep(r) \/ \E i \in TaskIds : TaskStep(r, i)

SpecRace == InitRace /\ [][NextRace]_vars

(***************************************************************************)
(* The codec, blurhash::encode, and its base-83 packer.  Real numbers are  *)
(* fixed-point integers, One standing for 1.0.  The codec's input here is  *)
(* what the basis projection yields from the pixels: the DC coefficient    *)
(* and the AC coefficients, three linear-light channels each.              *)
(***************************************************************************)
One == 1000

\* the 83 symbols, in the order of their digit values
Alphabet ==
    << "0", "1", "2", "3", "4", "5", "6", "7", "8", "9",
       "A", "B", "C", "D", "E", "F", "G", "H", "I", "J", "K", "L", "M",
       "N", "O", "P", "Q", "R", "S", "T", "U", "V", "W", "X", "Y", "Z",
       "a", "b", "c", "d", "e", "f", "g", "h", "i", "j", "k", "l", "m",
       "n", "o", "p", "q", "r", "s", "t", "u", "v", "w", "x", "y", "z",
       "#", "$", "%", "*", "+", ",", "-", ".", ":", ";", "=", "?", "@",
       "[", "]", "^", "_", "{", "|", "}", "~" >>

Symbols == {Alphabet[k] : k \in 1..Len(Alphabet)}

\* digitCount base-83 digits of value, most significant first
encodeIntShort(value, digitCount) ==
    [k \in 1..(digitCount - 1) |->
        Alphabet[((value \div (83 ^ (digitCount - 1 - k))) % 83) + 1]]
encodeInt(value, digitCount) ==
    [k \in 1..digitCount |->
        Alphabet[((value \div (83 ^ (digitCount - k))) % 83) + 1]]

\* the digit value of a symbol
DigitOf(c) == (CHOOSE k \in 1..Len(Alphabet) : Alphabet[k] = c) - 1

\* the digits read least significant first
RECURSIVE decodeIntLSB(_)
decodeIntLSB(str) ==
    IF str = <<>> THEN 0
    ELSE DigitOf(Head(str)) + 83 * decodeIntLSB(Tail(str))

RECURSIVE decodeInt(_)
decodeInt(str) ==
    IF str = <<>> THEN 0
    ELSE decodeInt(SubSeq(str, 1, Len(str) - 1)) * 83 + DigitOf(str[Len(str)])

clamp(x, lo, hi) == IF x < lo THEN lo ELSE IF x > hi THEN hi ELSE x

\* floor of the square root and of the cube root, for roots up to One
isqrt(x) == CHOOSE k \in 0..One : k * k <= x /\ (k + 1) * (k + 1) > x
icbrt(x) == CHOOSE k \in 0..One : k * k * k <= x /\ (k + 1) * (k + 1) * (k + 1) > x

\* v ^ (1 / 2.4) = (v ^ (1 / 12)) ^ 5 for v in 0..One, in fixed point
mulOne(x, y) == (x * y) \div One
pow5(v) == mulOne(mulOne(mulOne(mulOne(v, v), v), v), v)
powInvGamma(v) == pow5(isqrt(isqrt(icbrt(v * One * One) * One) * One))

\* linear light to the 0..255 gamma-encoded value, rounded
linearTosRGB(value) ==
    LET v == clamp(value, 0, One) IN
    IF v * 10000 <= 31308
    THEN (v * 1292 * 255 + 50 * One) \div (100 * One)
    ELSE ((1055 * powInvGamma(v) - 55 * One) * 255 + 500 * One) \div (One * One)

\* step 3: the DC integer
encodeDC(rgb) ==
    linearTosRGB(rgb[1]) * 65536 + linearTosRGB(rgb[2]) * 256 + linearTosRGB(rgb[3])

abs(x) == IF x < 0 THEN -x ELSE x

\* step 4: the largest magnitude among the AC channels, quantized
maxOf(S) == CHOOSE x \in S : \A y \in S : y <= x
maxAC(ac) ==
    maxOf({abs(ac[k][c]) : k \in 1..Len(ac), c \in 1..3} \cup {0})
\* the same value, not clamped to 0..82
quantizedMaxUnclamped(ac) ==
    IF Len(ac) = 0 THEN 0
    ELSE (maxAC(ac) * 166 - (One \div 2)) \div One
quantizedMax(ac) ==
    IF Len(ac) = 0 THEN 0
    ELSE clamp((maxAC(ac) * 166 - (One \div 2)) \div One, 0, 82)

\* step 5: clamp(floor(signPow(v / actualMaxValue, 0.5) * 9 + 9.5), 0, 18)
\* with actualMaxValue = (qmax + 1) / 166: n is at most that floor iff
\* 2n - 19 is at most 18 * sign(v) * sqrt(|v| / actualMaxValue)
AtMostFloor(n, v, qmax) ==
    LET a == abs(v) * 166
        b == One * (qmax + 1)
        d == 2 * n - 19
    IN  IF v >= 0 THEN d <= 0 \/ d * d * b <= 324 * a
        ELSE d <= 0 /\ 324 * a <= d * d * b
quantizeAC(v, qmax) == maxOf({n \in 0..18 : AtMostFloor(n, v, qmax)} \cup {0})

encodeAC(rgb, qmax) ==
    quantizeAC(rgb[1], qmax) * 19 * 19 + quantizeAC(rgb[2], qmax) * 19
        + quantizeAC(rgb[3], qmax)

sizeFlag(cx, cy) == (cx - 1) + (cy - 1) * 9

RECURSIVE encodeACs(_, _, _)
encodeACs(ac, k, qmax) ==
    IF k > Len(ac) THEN <<>>
    ELSE encodeInt(encodeAC(ac[k], qmax), 2) \o encodeACs(ac, k + 1, qmax)

\* step 6: the assembly.  dc and ac are the coefficients of the image, ac in
\* row-major order without (0,0)
encode(dc, ac, cx, cy, width, height) ==
    IF encode_outcome(cx, cy, width, height) # "hash"
    THEN [err |-> encode_outcome(cx, cy, width, height), hash |-> <<>>]
    ELSE [err |-> "none",
          hash |-> encodeInt(sizeFlag(cx, cy), 1)
                      \o encodeInt(quantizedMax(ac), 1)
                      \o encodeInt(encodeDC(dc), 4)
                      \o encodeACs(ac, 1, quantizedMax(ac))]

\* the calls of encodeInt in the assembly, in order: <<value, digitCount>>
encodeIntCalls(dc, ac, cx, cy) ==
    << <<sizeFlag(cx, cy), 1>>, <<quantizedMax(ac), 1>>, <<encodeDC(dc), 4>> >>
        \o [k \in 1..Len(ac) |-> <<encodeAC(ac[k], quantizedMax(ac)), 2>>]

\* the strings of a sequence of encodeInt calls, joined
RECURSIVE encodeIntAll(_)
encodeIntAll(calls) ==
    IF calls = <<>> THEN <<>>
    ELSE encodeInt(calls[1][1], calls[1][2]) \o encodeIntAll(Tail(calls))

(***************************************************************************)
(* Calls of the codec on its own.                                          *)
(***************************************************************************)
\* DC coefficients: black, dark (the linear segment), grey, white, and
\* values outside 0..1
DcValues == {<<0, 0, 0>>, <<2, 3, 1>>, <<215, 500, 900>>, <<One, One, One>>,
             <<-300, 1400, 500>>}

\* AC coefficients repeat a pattern: none, small, mixed signs, large, and
\* every channel at 1.0
AcPatterns == {<<0>>, <<3, -2, 0>>, <<120, -45, 300, -280>>, <<900, -1200>>,
               <<One>>}

\* the cx * cy - 1 AC coefficients of a grid, from a pattern
AcOf(pat, cx, cy) ==
    [k \in 1..(cx * cy - 1) |->
        [c \in 1..3 |-> pat[((k + c) % Len(pat)) + 1]]]

\* the grids tried: every valid one, and 0 and 10
GridRange == 0..10

InitCodec ==
    /\ fs = [f \in Files |-> "none"]
    /\ ncpus = 1
    /\ InitCommon
    /\ inputs = [r \in Runs |-> <<>>]
    /\ grid = [r \in Runs |-> <<4, 3>>]
    /\ mainPc = [r \in Runs |-> "off"]
    /\ \E cx \in GridRange, cy \in GridRange, w \in {0, 2}, h \in {0, 2} :
       \E dc \in DcValues, pat \in AcPatterns :
          codec = [pc |-> "called", cx |-> cx, cy |-> cy, width |-> w,
                   height |-> h, dc |-> dc, pat |-> pat]

\* blurhash::encode runs on the arguments; ints are the encodeInt calls it
\* made
CodecEncode ==
    /\ codec.pc = "called"
    /\ LET ac == IF codec.cx \in 1..9 /\ codec.cy \in 1..9
                 THEN AcOf(codec.pat, codec.cx, codec.cy) ELSE <<>>
           out == encode(codec.dc, ac, codec.cx, codec.cy, codec.width,
                         codec.height)
       IN  codec' = [pc |-> "returned", cx |-> codec.cx, cy |-> codec.cy,
                     width |-> codec.width, height |-> codec.height,
                     out |-> out,
                     ints |-> IF out.err = "none"
                              THEN encodeIntCalls(codec.dc, ac, codec.cx, codec.cy)
                              ELSE <<>>]
    /\ UNCHANGED <<fs, fs0, nwrites, ncpus, inputs, grid, mainPc, cursor,
                   image_paths, discoverLog, permits, pc, seen, img, did, ret,
                   printed, stderr, exit>>

NextCodec == CodecEncode

SpecCodec == InitCodec /\ [][NextCodec]_vars

(***************************************************************************)
(* Calls of the base-83 packer on its own: encodeInt on a value and a      *)
(* digit count, then decodeInt on the string it gave.                      *)
(***************************************************************************)
MaxSmallValue == 90
MaxDigits == 4

\* every small value, and the values around the powers of 83 and of 19 and
\* around 2 ^ 24 that the codec's fields reach
PackValues ==
    (0..MaxSmallValue)
        \cup {83 ^ k + e : k \in 1..4, e \in {-1, 0, 1}}
        \cup {80, 81, 6858, 6859, 16777215, 16777216}

\* value < 83 ^ digitCount, without forming 83 ^ digitCount
FitsDigits(value, digitCount) == value \div (83 ^ (digitCount - 1)) < 83

InitPacker ==
    /\ fs = [f \in Files |-> "none"]
    /\ ncpus = 1
    /\ InitCommon
    /\ inputs = [r \in Runs |-> <<>>]
    /\ grid = [r \in Runs |-> <<4, 3>>]
    /\ mainPc = [r \in Runs |-> "off"]
    /\ \E v \in PackValues, d \in 1..MaxDigits :
          codec = [pc |-> "int_called", value |-> v, digitCount |-> d]

\* encodeInt runs on the value
PackerEncode ==
    /\ codec.pc = "int_called"
    /\ codec' = [pc |-> "int_encoded", value |-> codec.value,
                 digitCount |-> codec.digitCount,
                 str |-> encodeInt(codec.value, codec.digitCount)]
    /\ UNCHANGED <<fs, fs0, nwrites, ncpus, inputs, grid, mainPc, cursor,
                   image_paths, discoverLog, permits, pc, seen, img, did, ret,
                   printed, stderr, exit>>

\* decodeInt runs on the string
PackerDecode ==
    /\ codec.pc = "int_encoded"
    /\ codec' = [pc |-> "int_decoded", value |-> codec.value,
                 digitCount |-> codec.digitCount, str |-> codec.str,
                 back |-> decodeInt(codec.str)]
    /\ UNCHANGED <<fs, fs0, nwrites, ncpus, inputs, grid, mainPc, cursor,
                   image_paths, discoverLog, permits, pc, seen, img, did, ret,
                   printed, stderr, exit>>

NextPacker == PackerEncode \/ PackerDecode

SpecPacker == InitPacker /\ [][NextPacker]_vars

(***************************************************************************)
(* What the claims speak of.                                               *)
(***************************************************************************)
\* the tasks past slot acquisition and not yet finished
InFlight(r) == {i \in TaskIds : pc[r][i] \in {"check", "decode", "encode", "write"}}

\* the tasks that hold a decoded image
HoldingPixels(r) == {i \in TaskIds : img[r][i].ok}

Candidates(r) == 1..Len(image_paths[r])

\* task i checked its artifact path and the artifact was there
SawArtifact(r, i) == seen[r][i] # "unchecked" /\ Exists(seen[r][i])

\* the terminal outcome of task i, from its result and the line it printed
Outcome(r, i) ==
    IF ret[r][i] = "Ok" /\ printed[r][i] = <<"Skipping">> THEN "skip"
    ELSE IF ret[r][i] = "Ok" /\ printed[r][i] = <<"Saved">> THEN "success"
    ELSE IF ret[r][i] \in {"InvalidGrid", "EmptyImage"} THEN "EncodeError"
    ELSE IF ret[r][i] \in {"DecodeError", "IoError"} THEN ret[r][i]
    ELSE "none"

Terminal == {"skip", "success", "DecodeError", "EncodeError", "IoError"}

\* join_all has returned
Joined(r) == mainPc[r] \in {"report", "done"}

\* how often task i was reported: by process_image, or by main on stderr
ReportCount(r, i) ==
    Len(printed[r][i]) + Cardinality({k \in 1..Len(stderr[r]) : stderr[r][k] = i})

(***************************************************************************)
(* C1: in every reachable state at most N (the semaphore's initial permit  *)
(* count) tasks are past slot acquisition and not yet finished, so at most *)
(* N decoded pixel buffers are alive, however many candidates there are.   *)
(***************************************************************************)
C1_AtMostPoolInFlight ==
    /\ Cardinality(InFlight(1)) <= ncpus
    /\ HoldingPixels(1) \subseteq InFlight(1)
    /\ Cardinality(HoldingPixels(1)) <= ncpus

\* more candidates than slots, every slot taken, one task waiting
C1_Witness ==
    /\ Len(image_paths[1]) > ncpus
    /\ Cardinality(InFlight(1)) = ncpus
    /\ Cardinality(HoldingPixels(1)) = ncpus
    /\ \E i \in TaskIds : pc[1][i] = "spawned"

(***************************************************************************)
(* C2: the failure of one item never aborts, cancels or skips another:     *)
(* once join_all has returned, every candidate has reached a terminal      *)
(* outcome of its own, however many items failed.                          *)
(***************************************************************************)
C2_FailureAbortsNoSibling ==
    Joined(1) => \A i \in Candidates(1) :
                    /\ pc[1][i] = "done"
                    /\ Outcome(1, i) \in Terminal

\* the first item failed to decode and a later one was saved all the same
C2_Witness ==
    /\ Joined(1)
    /\ Len(image_paths[1]) >= 3
    /\ Outcome(1, 1) = "DecodeError"
    /\ Outcome(1, 2) = "IoError"
    /\ Outcome(1, 3) = "success"

(***************************************************************************)
(* C3 as stated: when the batch completes there is exactly one outcome per *)
(* candidate, and it is skip when the artifact existed at the item's       *)
(* check, decode error when the decode failed, success otherwise (read     *)
(* here on the items whose encode returned a hash).                        *)
(***************************************************************************)
C3_ThreeWayClassification ==
    mainPc[1] = "done" =>
        /\ \A i \in TaskIds : (ret[1][i] # "none") <=> (i \in Candidates(1))
        /\ \A i \in Candidates(1) :
              "encode_err" \notin did[1][i] =>
                  Outcome(1, i) = IF SawArtifact(1, i) THEN "skip"
                                  ELSE IF "decode_err" \in did[1][i] THEN "DecodeError"
                                  ELSE "success"

\* the outcome the item's own check, decode, encode and write determine
Expected(r, i) ==
    IF SawArtifact(r, i) THEN "skip"
    ELSE IF "decode_err" \in did[r][i] THEN "DecodeError"
    ELSE IF "encode_err" \in did[r][i] THEN "EncodeError"
    ELSE IF "write_err" \in did[r][i] THEN "IoError"
    ELSE "success"

(***************************************************************************)
(* C3, amended: when the batch completes there is exactly one outcome per  *)
(* candidate, classified by that item alone: skip when its artifact        *)
(* existed at its check, decode error when the decode failed, an encode    *)
(* error when encode failed, an I/O error when the write failed, success   *)
(* otherwise.                                                              *)
(***************************************************************************)
C3_OneOutcomePerCandidate ==
    mainPc[1] = "done" =>
        /\ \A i \in TaskIds : (ret[1][i] # "none") <=> (i \in Candidates(1))
        /\ \A i \in Candidates(1) :
              /\ Outcome(1, i) \in Terminal
              /\ Outcome(1, i) = Expected(1, i)

\* a skip, a decode error and a success in one batch
C3_Witness ==
    /\ mainPc[1] = "done"
    /\ \E i, j, k \in Candidates(1) :
          /\ Outcome(1, i) = "skip"
          /\ Outcome(1, j) = "DecodeError"
          /\ Outcome(1, k) = "success"

(***************************************************************************)
(* C4: an item whose artifact exists when process_image checks it is       *)
(* skipped: it decodes nothing, encodes nothing, writes nothing, and its   *)
(* outcome is no error.                                                    *)
(***************************************************************************)
C4_ExistingArtifactSkipped ==
    \A i \in TaskIds :
        SawArtifact(1, i) =>
            /\ pc[1][i] = "done"
            /\ did[1][i] = {}
            /\ ~img[1][i].ok
            /\ ret[1][i] = "Ok"
            /\ printed[1][i] = <<"Skipping">>

\* a task found the artifact of a directly named image
C4_Witness ==
    \E i \in Candidates(1) :
        /\ seen[1][i] = "old"
        /\ fs[image_paths[1][i]] = "old"
        /\ nwrites[image_paths[1][i]] = 0
        /\ mainPc[1] = "done"

(***************************************************************************)
(* C5: slot acquisition never deadlocks: with every decode and write       *)
(* terminating and fair scheduling, every task waiting for a slot gets     *)
(* one, every candidate reaches a terminal outcome and the batch finishes. *)
(***************************************************************************)
C5_NoDeadlock ==
    /\ \A i \in TaskIds : (pc[1][i] = "spawned") ~> (pc[1][i] = "check")
    /\ \A i \in TaskIds : (pc[1][i] = "spawned") ~> (pc[1][i] = "done")
    /\ (mainPc[1] = "join") ~> (mainPc[1] = "done" /\ exit[1] = "Ok")

\* a task waits while every slot is taken
C5_Witness ==
    /\ permits[1] = 0
    /\ Len(image_paths[1]) > ncpus
    /\ \E i \in TaskIds : pc[1][i] = "spawned"
    /\ \E i \in TaskIds : pc[1][i] = "write"

(***************************************************************************)
(* C6 as stated: the run's overall outcome is failure if and only if at    *)
(* least one item ended in error.                                          *)
(***************************************************************************)
C6_ExitSignalsItemFailure ==
    mainPc[1] = "done" =>
        ((exit[1] = "Err") <=> (\E i \in Candidates(1) : IsErr(ret[1][i])))

(***************************************************************************)
(* C6, amended: a completed batch returns success whether or not an item   *)
(* failed; the failures show only as the lines main prints on standard     *)
(* error, one for each failed item and none for the others.                *)
(***************************************************************************)
C6_ExitOkFailuresOnStderr ==
    mainPc[1] = "done" =>
        /\ exit[1] = "Ok"
        /\ (stderr[1] # <<>>) <=> (\E i \in Candidates(1) : IsErr(ret[1][i]))
        /\ \A i \in Candidates(1) :
              IsErr(ret[1][i]) <=> (\E k \in 1..Len(stderr[1]) : stderr[1][k] = i)

\* a batch that completed with a failed item
C6_Witness ==
    /\ mainPc[1] = "done"
    /\ exit[1] = "Ok"
    /\ \E i \in Candidates(1) : ret[1][i] = "DecodeError"

(***************************************************************************)
(* C7: every item's terminal outcome is reported exactly once: a success   *)
(* by the saved line, a skip by the skipping line, a failure by main's     *)
(* line on standard error; no item finishes the batch unreported.          *)
(***************************************************************************)
C7_EachOutcomeReportedOnce ==
    /\ \A i \in TaskIds : ReportCount(1, i) <= 1
    /\ mainPc[1] = "done" =>
          \A i \in Candidates(1) :
              /\ ReportCount(1, i) = 1
              /\ SawArtifact(1, i) => printed[1][i] = <<"Skipping">>
              /\ ("write" \in did[1][i] /\ "write_err" \notin did[1][i])
                    => printed[1][i] = <<"Saved">>
              /\ ({"decode_err", "encode_err", "write_err"} \cap did[1][i] # {})
                    => (\E k \in 1..Len(stderr[1]) : stderr[1][k] = i)

\* a batch that reported a success, a skip and a write failure
C7_Witness ==
    /\ mainPc[1] = "done"
    /\ \E i, j, k \in Candidates(1) :
          /\ printed[1][i] = <<"Saved">>
          /\ printed[1][j] = <<"Skipping">>
          /\ ret[1][k] = "IoError"
          /\ stderr[1] = <<k>>

(***************************************************************************)
(* C8 as stated: when two runs process the same path, in every             *)
(* interleaving the artifact is written by at most one of them and the     *)
(* other run skips the item.                                               *)
(***************************************************************************)
C8_OnlyOneRunWrites ==
    \A i \in Candidates(1) : \A j \in Candidates(2) :
        image_paths[1][i] = image_paths[2][j] =>
            /\ ~(Outcome(1, i) = "success" /\ Outcome(2, j) = "success")
            /\ nwrites[image_paths[1][i]] <= 1

(***************************************************************************)
(* C8, amended: a run skips the item whenever the artifact exists at that  *)
(* run's own check, and writes it only if it did not exist at that check;  *)
(* two runs that both check before either writes both write it.            *)
(***************************************************************************)
C8_WritesOnlyIfAbsentAtCheck ==
    \A r \in Runs : \A i \in TaskIds :
        /\ SawArtifact(r, i) => (Outcome(r, i) = "skip" /\ did[r][i] = {})
        /\ "write" \in did[r][i] => seen[r][i] = "none"
        /\ pc[r][i] = "write" => seen[r][i] = "none"

\* one run saved the artifact and the other run, checking later, skipped
C8_Witness ==
    \E i \in Candidates(1) : \E j \in Candidates(2) :
        /\ image_paths[1][i] = image_paths[2][j]
        /\ Outcome(1, i) = "success"
        /\ seen[2][j] = "hash"
        /\ Outcome(2, j) = "skip"

C11_Base83RoundTrip ==
    (codec.pc \in {"int_encoded", "int_decoded"}
        /\ FitsDigits(codec.value, codec.digitCount)) =>
        /\ Len(codec.str) = codec.digitCount
        /\ \A k \in 1..Len(codec.str) :
              /\ codec.str[k] \in Symbols
              /\ DigitOf(codec.str[k])
                    = (codec.value \div (83 ^ (codec.digitCount - k))) % 83
        /\ codec.pc = "int_decoded" => codec.back = codec.value

\* the largest DC integer went through four digits and came back
C11_Witness ==
    /\ codec.pc = "int_decoded"
    /\ codec.value = 16777215 /\ codec.digitCount = 4
    /\ codec.str = <<"T", "S", "U", "A">>
    /\ codec.back = 16777215

(***************************************************************************)
(* C12: when a grid dimension is outside 1..9 (0 or 10) or the decoded     *)
(* image has width or height 0, the encode step of an item ends that item  *)
(* in InvalidGrid or EmptyImage, writes nothing and touches no other item; *)
(* the failed item never writes its artifact, and once the tasks are       *)
(* joined every candidate, the failed ones and the others, has a terminal  *)
(* outcome.                                                                *)
(***************************************************************************)
C12_EncodeErrorFailsOnlyItsItem ==
    /\ [](\A i \in TaskIds :
            /\ ret[1][i] \in {"InvalidGrid", "EmptyImage"} =>
                  /\ pc[1][i] = "done"
                  /\ did[1][i] \cap {"write", "write_err"} = {}
                  /\ (ret[1][i] = "InvalidGrid")
                        <=> ~(grid[1][1] \in 1..9 /\ grid[1][2] \in 1..9)
            /\ Joined(1) /\ i \in Candidates(1) => Outcome(1, i) \in Terminal)
    /\ [][\A i \in TaskIds :
            (/\ pc[1][i] = "encode" /\ pc'[1][i] # "encode"
             /\ \/ grid[1][1] \notin 1..9 \/ grid[1][2] \notin 1..9
                \/ img[1][i].w = 0 \/ img[1][i].h = 0)
            => /\ pc'[1][i] = "done"
               /\ ret'[1][i] = IF grid[1][1] \in 1..9 /\ grid[1][2] \in 1..9
                                THEN "EmptyImage" ELSE "InvalidGrid"
               /\ fs' = fs /\ nwrites' = nwrites
               /\ \A j \in TaskIds \ {i} :
                     pc'[1][j] = pc[1][j] /\ ret'[1][j] = ret[1][j]]_vars

\* a batch over: an empty image failed in encode, a later image was saved
C12_Witness ==
    /\ mainPc[1] = "done"
    /\ \E i, j \in Candidates(1) :
          /\ i < j
          /\ ret[1][i] = "EmptyImage" /\ fs[image_paths[1][i]] = fs0[image_paths[1][i]]
          /\ Outcome(1, j) = "success"
          /\ stderr[1] = <<i>>

(***************************************************************************)
(* C13: a task holds a permit from its acquisition until its terminal      *)
(* outcome and on every outcome gives it back: once the semaphore exists   *)
(* the free permits plus the tasks holding one (past acquisition, not yet  *)
(* finished) equal the pool size, a finished or waiting task holds none,   *)
(* and when the run has returned all permits are free.                     *)
(***************************************************************************)
C13_PermitsAccounted ==
    /\ mainPc[1] \in {"join", "report", "done"} =>
          /\ permits[1] \in 0..SemaphoreNew
          /\ permits[1] + Cardinality(InFlight(1)) = SemaphoreNew
    /\ mainPc[1] = "done" => permits[1] = SemaphoreNew /\ InFlight(1) = {}

\* one task holds a permit, one permit is free, and tasks have finished by
\* a skip and by an error
C13_Witness ==
    /\ mainPc[1] = "join"
    /\ permits[1] = 1 /\ Cardinality(InFlight(1)) = 1
    /\ \E i, j \in Candidates(1) :
          /\ Outcome(1, i) = "skip"
          /\ Outcome(1, j) \in {"DecodeError", "EncodeError", "IoError"}

(***************************************************************************)
(* C14 as stated: whatever the inputs (a directory or directly named image *)
(* files), no path get_image_paths has put in the candidate list had an    *)
(* artifact on disk when discovery examined it.  While discovery runs no   *)
(* task exists, so the disk is as discovery saw it.                        *)
(***************************************************************************)
C14_DiscoveryExcludesDone ==
    mainPc[1] = "discover" =>
        \A k \in Candidates(1) : ~Exists(fs[image_paths[1][k]])

(***************************************************************************)
(* C15 as stated: within one run each artifact path is written at most     *)
(* once, for every input list (also one that reaches an image twice) and   *)
(* under every interleaving.                                               *)
(***************************************************************************)
C15_ArtifactWrittenOnce ==
    \A f \in Files : nwrites[f] <= 1

(***************************************************************************)
(* C16: every integer encode passes to encodeInt fits its digits: the      *)
(* sizeFlag is in 0..80 for grids 1..9, the quantizedMax in 0..82, both    *)
(* one digit; the DC integer is a 24-bit value, below 83 ^ 4; every packed *)
(* AC value 19 * 19 * q_r + 19 * q_g + q_b is in 0..6859, below 83 ^ 2.    *)
(* The hash is the strings of exactly these calls, joined.                 *)
(***************************************************************************)
C16_FieldsFitDigits ==
    (codec.pc = "returned" /\ codec.out.err = "none") =>
        /\ Len(codec.ints) = 3 + (codec.cx * codec.cy - 1)
        /\ codec.ints[1][1] \in 0..80 /\ codec.ints[1][2] = 1
        /\ codec.ints[1][1] = (codec.cx - 1) + (codec.cy - 1) * 9
        /\ codec.ints[2][1] \in 0..82 /\ codec.ints[2][2] = 1
        /\ codec.ints[3][1] \in 0..(2 ^ 24 - 1) /\ codec.ints[3][2] = 4
        /\ 2 ^ 24 - 1 < 83 ^ 4
        /\ \A k \in 4..Len(codec.ints) :
              /\ codec.ints[k][1] \in 0..6859 /\ codec.ints[k][2] = 2
              /\ codec.ints[k][1] < 83 ^ 2
        /\ \A k \in 1..Len(codec.ints) :
              FitsDigits(codec.ints[k][1], codec.ints[k][2])
        /\ codec.out.hash = encodeIntAll(codec.ints)

\* a 9x9 grid, a white DC and AC channels at 1.0: every field at its largest
C16_Witness ==
    /\ codec.pc = "returned"
    /\ Len(codec.ints) = 83
    /\ codec.ints[1] = <<80, 1>>
    /\ codec.ints[2] = <<82, 1>>
    /\ codec.ints[3] = <<16777215, 4>>
    /\ \A k \in 4..83 : codec.ints[k] = <<6858, 2>>

(***************************************************************************)
(* C17: main prints the failures of the items only after every item has    *)
(* its terminal outcome, and in the order of the candidate list whatever   *)
(* the order the tasks finished in: whenever a failure line is on stderr   *)
(* every candidate is finished, the lines name strictly increasing         *)
(* positions of the candidate list, and they are exactly the failed        *)
(* candidates the loop has passed.                                         *)
(***************************************************************************)
C17_FailuresAfterJoinInListOrder ==
    /\ stderr[1] # <<>> =>
          /\ Joined(1)
          /\ \A i \in Candidates(1) : pc[1][i] = "done" /\ Outcome(1, i) \in Terminal
    /\ \A k, l \in 1..Len(stderr[1]) : k < l => stderr[1][k] < stderr[1][l]
    /\ Joined(1) =>
          {stderr[1][k] : k \in 1..Len(stderr[1])}
              = {i \in Candidates(1) : i < cursor[1] /\ IsErr(ret[1][i])}

\* the loop has printed the first and the third candidate's failures, of
\* different kinds, and passed a second candidate that did not fail
C17_Witness ==
    /\ mainPc[1] = "report"
    /\ stderr[1] = <<1, 3>>
    /\ ret[1][1] = "IoError" /\ ret[1][2] = "Ok" /\ ret[1][3] = "DecodeError"

(***************************************************************************)
(* C18: when discovery fails, the run ends with that error before any item *)
(* is dispatched: from then on no task exists, no permit is taken, no      *)
(* image is decoded, no item is reported and the disk is as it was at the  *)
(* start, also when images had been discovered before the failure.         *)
(***************************************************************************)
C18_DiscoveryFailureDispatchesNothing ==
    mainPc[1] = "failed" =>
        /\ exit[1] = "Err"
        /\ permits[1] = 0
        /\ \A i \in TaskIds :
              /\ pc[1][i] = "absent"
              /\ did[1][i] = {}
              /\ seen[1][i] = "unchecked"
              /\ ~img[1][i].ok
              /\ ret[1][i] = "none"
              /\ printed[1][i] = <<>>
        /\ stderr[1] = <<>>
        /\ fs = fs0
        /\ \A f \in Files : nwrites[f] = 0

\* discovery failed on a directory after a directly named image without an
\* artifact had been put in the candidate list
C18_Witness ==
    /\ mainPc[1] = "failed"
    /\ exit[1] = "Err"
    /\ Len(image_paths[1]) = 1
    /\ fs[image_paths[1][1]] = "none"
    /\ cursor[1] = 2

=============================================================================
